---- MODULE Spec2Model ----
(***************************************************************************)
(* UpCube Write: the client-side annotation-and-correction engine.         *)
(*                                                                         *)
(* The repository holds several generations of the same React application. *)
(* They are modelled here, each as its own specification over the same     *)
(* variables:                                                              *)
(*   SpecAnnot  the span annotators as pure functions of (text, matches)   *)
(*   SpecApply  the apply functions as pure functions                      *)
(*   SpecBatch  what the response handlers publish of a response body      *)
(*   SpecSeverity the severity classification of a match                   *)
(*   SpecP4     src/unnamed/part_004 (documents app, checkGrammar); LiveP4 *)
(*              is SpecP4 with the fairness of timeouts and responses      *)
(*   SpecLT     src/languagetool-master/src/App.tsx (useDebounced+abort)   *)
(*   SpecTW     src/tailwind.config.js (second application)                *)
(*   SpecAPP    src/App.tsx (healthcheck, local heuristics); LiveAPP is    *)
(*              SpecAPP with the fairness of timeouts and fetches          *)
(* Text is a sequence of one-character strings; offsets are 0-based as in  *)
(* the source, and a match index is 0-based.                               *)
(***************************************************************************)
EXTENDS Integers, Sequences, FiniteSets, TLC

VARIABLES
    text,           \* the buffer (useState text / activeDoc.text)
    debouncedText,  \* useDebounced's debounced state
    language,       \* the language select
    matches,        \* the match set
    selectedIdx,    \* the selected match index (null is -1)
    loading,        \* loading / isChecking flag
    err,            \* err / status: the failure state shown to the user
    timers,         \* pending debounce timers, each holding its captured value
    inflight,       \* the analysis inflight, latest awaiting their response, in issue order
    latest,         \* the most recently issued analysis request
    segs,           \* the annotator's output for the current inputs
    status,         \* the engine status the healthcheck reports
    probe,          \* the healthcheck request: "none", "pending" or "done"
    last            \* the handler that ran last

vars == <<text, debouncedText, language, matches, selectedIdx, loading, err,
          timers, inflight, latest, segs, status, probe, last>>

-----------------------------------------------------------------------------
(* Bounds *)

MaxMatches == 3     \* longest match list a response carries
MaxInFlight == 2    \* analysis inflight, latest awaiting their response at one time
MaxLen == 4         \* longest buffer an apply may still lengthen
MaxAnnLen == 3      \* longest generated buffer handed to the annotators
MaxAnnMatches == 2  \* longest match list handed to the annotators
MaxBatch == 2       \* longest generated response batch
MaxCalls == 2       \* calls of buildHighlightedHtml recorded per input

-----------------------------------------------------------------------------
(* Strings *)

null == -1

Min(a, b) == IF a < b THEN a ELSE b
Max(a, b) == IF a > b THEN a ELSE b

\* String.prototype.slice(a, b) for non-negative a, b
Slice(s, a, b) ==
    LET lo == Min(a, Len(s))
        hi == Min(b, Len(s))
    IN  IF lo >= hi THEN <<>> ELSE SubSeq(s, lo + 1, hi)

\* String.prototype.slice(a)
SliceFrom(s, a) == Slice(s, a, Len(s))

IsSpace(c) == c = " "

RECURSIVE TrimStart(_)
TrimStart(s) ==
    IF s = <<>> THEN <<>>
    ELSE IF IsSpace(Head(s)) THEN TrimStart(Tail(s)) ELSE s

RECURSIVE TrimEnd(_)
TrimEnd(s) ==
    IF s = <<>> THEN <<>>
    ELSE IF IsSpace(s[Len(s)]) THEN TrimEnd(SubSeq(s, 1, Len(s) - 1)) ELSE s

\* String.prototype.trim()
Trim(s) == TrimEnd(TrimStart(s))

clamp(n, lo, hi) == Max(lo, Min(hi, n))

RECURSIVE Concat(_)
Concat(ss) == IF ss = <<>> THEN <<>> ELSE Head(ss) \o Concat(Tail(ss))

Range(s) == {s[i] : i \in DOMAIN s}

\* matches[i] is defined (0-based index)
InRange(ms, i) == i \in 0 .. (Len(ms) - 1)

-----------------------------------------------------------------------------
(* Span annotators *)

\* a match as the annotators see it: the LTMatch fields offset and length,
\* and _i, its index in the match list
Span(m, i) == [offset |-> m.offset, length |-> m.length, _i |-> i]

Indexed(ms) == [k \in DOMAIN ms |-> Span(ms[k], k - 1)]

\* Array.prototype.sort((a, b) => a.offset - b.offset): stable, ascending
RECURSIVE SortByOffset(_)
SortByOffset(s) ==
    IF s = <<>> THEN <<>>
    ELSE LET x    == s[Len(s)]
             rest == SortByOffset(SubSeq(s, 1, Len(s) - 1))
             keep == {k \in DOMAIN rest : rest[k].offset <= x.offset}
             n    == Cardinality(keep)
         IN  SubSeq(rest, 1, n) \o <<x>> \o SubSeq(rest, n + 1, Len(rest))

Plain(t) == IF t = <<>> THEN <<>> ELSE <<[kind |-> "plain", text |-> t]>>

Highlighted(t, i, from, to, sel) ==
    <<[kind |-> "highlighted", text |-> t, matchIndex |-> i,
       start |-> from, end |-> to, selected |-> sel]>>

\* the loop of buildHighlightedHtml over the sorted spans
RECURSIVE buildLoop(_, _, _, _, _)
buildLoop(t, spans, cursor, out, sel) ==
    IF spans = <<>> THEN out \o Plain(SliceFrom(t, cursor))
    ELSE LET s     == Head(spans)
             start == clamp(s.offset, 0, Len(t))
             end   == clamp(s.offset + s.length, 0, Len(t))
         IN  IF end <= cursor
             THEN buildLoop(t, Tail(spans), cursor, out, sel)
             ELSE buildLoop(t, Tail(spans), end,
                            out \o Plain(Slice(t, cursor, start))
                                \o Highlighted(Slice(t, start, end), s._i,
                                               start, end, sel = s._i),
                            sel)

buildHighlightedHtml(t, ms, sel) ==
    buildLoop(t, SortByOffset(Indexed(ms)), 0, <<>>, sel)

\* the forEach of the two renderHighlightedText functions
RECURSIVE renderLoop(_, _, _, _)
renderLoop(t, spans, lastIndex, parts) ==
    IF spans = <<>> THEN parts \o Plain(SliceFrom(t, lastIndex))
    ELSE LET m == Head(spans)
         IN  renderLoop(t, Tail(spans), m.offset + m.length,
                        parts \o Plain(Slice(t, lastIndex, m.offset))
                              \o Highlighted(Slice(t, m.offset, m.offset + m.length),
                                             m._i, Min(m.offset, Len(t)),
                                             Min(m.offset + m.length, Len(t)),
                                             FALSE))

\* Editor.renderHighlightedText: sorts a copy, keys the marks by sorted position
renderHighlightedText(t, ms) ==
    IF ms = <<>> THEN Plain(t)
    ELSE LET sorted == SortByOffset(Indexed(ms))
         IN  renderLoop(t, [k \in DOMAIN sorted |->
                              [sorted[k] EXCEPT !._i = k - 1]], 0, <<>>)

\* App.renderHighlightedText: walks the matches in the order received
renderHighlightedTextApp(t, ms) == renderLoop(t, Indexed(ms), 0, <<>>)

SegText(ss) == Concat([k \in DOMAIN ss |-> ss[k].text])

HighlightedSegs(ss) == {k \in DOMAIN ss : ss[k].kind = "highlighted"}

-----------------------------------------------------------------------------
(* Inputs *)

Langs == {"en-US", "fr"}

\* what a handler leaves in `last`
Op(name, arg) == [op |-> name, arg |-> arg]

Hello == <<"h", "e", "l", "l", "o", " ", "w", "o", "r", "l", "d">>

SeqsUpTo(S, n) == UNION {[1 .. k -> S] : k \in 0 .. n}

AnnTexts == SeqsUpTo({"a", "b"}, MaxAnnLen) \cup {Hello}

AnnMatches ==
    [offset : 0 .. (MaxAnnLen + 1), length : 1 .. MaxAnnLen]
        \cup {[offset |-> 0, length |-> 5], [offset |-> 3, length |-> 4]}

AnnMatchLists == SeqsUpTo(AnnMatches, MaxAnnMatches)

\* no annotator was called yet; `built` collects what the calls of
\* buildHighlightedHtml returned
NoSegs == [fn |-> "none", out |-> <<>>, built |-> <<>>]

\* no analysis request was issued yet
NoRequest == [text |-> <<>>, status |-> "none"]

-----------------------------------------------------------------------------
(* SpecAnnot: the annotators applied to generated inputs *)

InitAnnot ==
    /\ text \in AnnTexts
    /\ matches \in AnnMatchLists
    /\ selectedIdx \in {null, 0}
    /\ debouncedText = <<>>
    /\ language = "en-US"
    /\ loading = FALSE
    /\ err = "none"
    /\ timers = {}
    /\ inflight = <<>>
    /\ latest = NoRequest
    /\ segs = NoSegs
    /\ status = "online"
    /\ probe = "none"
    /\ last = Op("init", null)

Annotated(fn, out) ==
    /\ segs.fn # fn
    /\ fn = "buildHighlightedHtml" => Len(segs.built) < MaxCalls
    /\ segs' = [fn |-> fn, out |-> out,
                built |-> IF fn = "buildHighlightedHtml"
                          THEN Append(segs.built, out)
                          ELSE segs.built]
    /\ last' = Op(fn, null)
    /\ UNCHANGED <<text, debouncedText, language, matches, selectedIdx,
                   loading, err, timers, inflight, latest, status, probe>>

\* buildHighlightedHtml sorting the array it was handed instead of a copy
AnnotateBuild_sortInPlace ==
    /\ segs.fn # "buildHighlightedHtml"
    /\ Len(segs.built) < MaxCalls
    /\ LET out == buildHighlightedHtml(text, matches, selectedIdx)
       IN  segs' = [fn |-> "buildHighlightedHtml", out |-> out,
                    built |-> Append(segs.built, out)]
    /\ matches' = SortByOffset(matches)
    /\ last' = Op("buildHighlightedHtml", null)
    /\ UNCHANGED <<text, debouncedText, language, selectedIdx, loading, err,
                   timers, inflight, latest, status, probe>>

\* part_004: highlightedHtml = buildHighlightedHtml(activeText, matches, selectedMatchIdx)
AnnotateBuild ==
    Annotated("buildHighlightedHtml",
              buildHighlightedHtml(text, matches, selectedIdx))

\* part_006: {renderHighlightedText()}
AnnotateRender ==
    Annotated("renderHighlightedText", renderHighlightedText(text, matches))

\* tailwind.config.js: highlights={renderHighlightedText(text, matches)}
AnnotateRenderApp ==
    Annotated("renderHighlightedTextApp", renderHighlightedTextApp(text, matches))

NextAnnot == AnnotateBuild \/ AnnotateRender \/ AnnotateRenderApp

SpecAnnot == InitAnnot /\ [][NextAnnot]_vars

-----------------------------------------------------------------------------
(* Claims about the annotators *)

\* C2: round trip: for every buffer and every match set, unsorted,
\* overlapping or out-of-range matches included, the texts of the emitted
\* segments, concatenated in order, are the buffer.
C2_RoundTrip == segs.fn # "none" => SegText(segs.out) = text

Disjoint(ss) ==
    \A j, k \in HighlightedSegs(ss) :
        j < k => (ss[j].end <= ss[k].start \/ ss[k].end <= ss[j].start)

\* C3: overlap policy: a match whose clamped start lies before the cursor is
\* skipped entirely, so the highlighted segments of buildHighlightedHtml cover
\* pairwise disjoint ranges; over "hello world" the matches (0,5),(3,4) give
\* exactly one highlighted segment, "hello".
C3_OverlapPolicy ==
    segs.fn = "buildHighlightedHtml" =>
        /\ Disjoint(segs.out)
        /\ (/\ text = Hello
            /\ matches = <<[offset |-> 0, length |-> 5],
                           [offset |-> 3, length |-> 4]>>)
           => /\ Cardinality(HighlightedSegs(segs.out)) = 1
              /\ \A k \in HighlightedSegs(segs.out) :
                    segs.out[k].text = <<"h", "e", "l", "l", "o">>

-----------------------------------------------------------------------------
(* Inputs of the two applications *)

\* the seeded document
InitText == <<"a", "a", "a">>

\* what the user may type: blank, shorter than 3 characters, shorter than 3
\* characters once trimmed, and long enough with two or three flagged characters
Texts == { <<" ">>, <<"a", "a">>, <<" ", "a", "a">>, <<"a", " ", "a">>, InitText }

\* what the user may type in part_004's editor
P4Texts == Texts \ { <<"a", " ", "a">> }

\* replacement strings a match may offer
Repls == { <<"a", "a">> }

\* the offsets of the characters the collaborator flags
RECURSIVE FlaggedFrom(_, _)
FlaggedFrom(t, k) ==
    IF k >= Len(t) THEN <<>>
    ELSE (IF IsSpace(t[k + 1]) THEN <<>> ELSE <<[offset |-> k, length |-> 1]>>)
         \o FlaggedFrom(t, k + 1)

\* the collaborator's answer for a text: one match per flagged character, in
\* ascending order of offset, at most MaxMatches
Analyse(t) ==
    LET all == FlaggedFrom(t, 0)
    IN  SubSeq(all, 1, Min(MaxMatches, Len(all)))

\* a request on the wire: the text sent; the answer it will get is the
\* collaborator's answer for it
Request(t) == [text |-> t]

Resp(r) == Analyse(r.text)

\* the most recently issued request and what became of it
Issued(t) == [text |-> t, status |-> "pending"]

\* position i of inflight holds the most recently issued request
IsLatest(i) == latest.status = "pending" /\ i = Len(inflight)

Settled(i, st) == IF IsLatest(i) THEN [latest EXCEPT !.status = st] ELSE latest

RemoveAt(ms, i) == SubSeq(ms, 1, i) \o SubSeq(ms, i + 2, Len(ms))

-----------------------------------------------------------------------------
(* SpecP4: src/unnamed/part_004 *)

replaceRange(t, start, end, replacement) ==
    Slice(t, 0, start) \o replacement \o SliceFrom(t, end)

\* the debounced-checking effect: the cleanup clears the timer of the previous
\* run, the body arms a new one that captures the text
P4_Rearm(t) == {t}

InitP4 ==
    /\ text = InitText
    /\ debouncedText = <<>>
    /\ language = "en-US"
    /\ matches = <<>>
    /\ selectedIdx = null
    /\ loading = FALSE
    /\ err = ""
    /\ timers = P4_Rearm(InitText)
    /\ inflight = <<>>
    /\ latest = NoRequest
    /\ segs = NoSegs
    /\ status = "online"
    /\ probe = "none"
    /\ last = Op("init", null)

\* Editor onChange -> updateActiveDoc({ text })
P4_Edit(t) ==
    /\ t # text
    /\ text' = t
    /\ timers' = P4_Rearm(t)
    /\ last' = Op("edit", null)
    /\ UNCHANGED <<debouncedText, language, matches, selectedIdx, loading,
                   err, inflight, latest, segs, status, probe>>

\* <select id="lang" onChange>
P4_SetLanguage(l) ==
    /\ l # language
    /\ language' = l
    /\ timers' = P4_Rearm(text)
    /\ last' = Op("language", null)
    /\ UNCHANGED <<text, debouncedText, matches, selectedIdx, loading, err,
                   inflight, latest, segs, status, probe>>

\* the first statements of checkGrammar, up to the fetch
checkGrammar(tm) ==
    /\ Len(inflight) < MaxInFlight
    /\ loading' = TRUE
    /\ err' = "Checking"
    /\ selectedIdx' = null
    /\ inflight' = Append(inflight, Request(tm))
    /\ latest' = Issued(tm)
    /\ UNCHANGED matches

\* the setTimeout callback of the debounced-checking effect
P4_TimerFire ==
    \E tm \in timers :
        /\ timers' = timers \ {tm}
        /\ IF Trim(tm) = <<>>
           THEN /\ matches' = <<>>
                /\ selectedIdx' = null
                /\ err' = ""
                /\ UNCHANGED <<loading, inflight, latest>>
           ELSE checkGrammar(tm)
        /\ last' = Op("fire", null)
        /\ UNCHANGED <<text, debouncedText, language, segs, status, probe>>

\* checkGrammar after the fetch: res.ok and a JSON body
P4_Resolve(i) ==
    /\ i \in DOMAIN inflight
    /\ matches' = Resp(inflight[i])
    /\ err' = "Found"
    /\ loading' = FALSE
    /\ inflight' = RemoveAt(inflight, i - 1)
    /\ latest' = Settled(i, "ok")
    /\ last' = Op("resolve", null)
    /\ UNCHANGED <<text, debouncedText, language, selectedIdx, timers, segs, status, probe>>

\* checkGrammar after the fetch: the catch block
P4_Reject(i) ==
    /\ i \in DOMAIN inflight
    /\ matches' = <<>>
    /\ err' = "Error"
    /\ loading' = FALSE
    /\ inflight' = RemoveAt(inflight, i - 1)
    /\ latest' = Settled(i, "failed")
    /\ last' = Op("reject", null)
    /\ UNCHANGED <<text, debouncedText, language, selectedIdx, timers, segs, status, probe>>

\* click on a suggestion of the list, which is rendered while not checking
P4_SelectList(i) ==
    /\ ~loading
    /\ InRange(matches, i)
    /\ selectedIdx' = i
    /\ last' = Op("select", i)
    /\ UNCHANGED <<text, debouncedText, language, matches, loading, err,
                   timers, inflight, latest, segs, status, probe>>

\* onWordClick deselecting the match that is already selected
P4_WordClick_toggle(i) ==
    /\ \E k \in HighlightedSegs(buildHighlightedHtml(text, matches, selectedIdx)) :
          buildHighlightedHtml(text, matches, selectedIdx)[k].matchIndex = i
    /\ selectedIdx' = IF selectedIdx = i THEN null ELSE i
    /\ last' = Op("wordClick", i)
    /\ UNCHANGED <<text, debouncedText, language, matches, loading, err,
                   timers, inflight, latest, segs, status, probe>>

\* Editor click handler on a span carrying data-idx -> onWordClick(idx)
P4_WordClick(i) ==
    /\ \E k \in HighlightedSegs(buildHighlightedHtml(text, matches, selectedIdx)) :
          buildHighlightedHtml(text, matches, selectedIdx)[k].matchIndex = i
    /\ selectedIdx' = i
    /\ last' = Op("wordClick", i)
    /\ UNCHANGED <<text, debouncedText, language, matches, loading, err,
                   timers, inflight, latest, segs, status, probe>>

\* the most segments a rendered text has
MaxSegs == 2 * MaxMatches + 1

\* the element a click on segment k hits, when k is plain text
PlainTarget(k) ==
    LET html == buildHighlightedHtml(text, matches, selectedIdx)
    IN  k \in DOMAIN html /\ html[k].kind = "plain"

\* the Editor click handler without its `if (idx)`: Number(null) is 0
P4_PlainClick_unguarded(k) ==
    /\ PlainTarget(k)
    /\ selectedIdx' = 0
    /\ last' = Op("plainClick", null)
    /\ UNCHANGED <<text, debouncedText, language, matches, loading, err,
                   timers, inflight, latest, segs, status, probe>>

\* Editor click handler on an element without data-idx: getAttribute gives
\* null and onWordClick is not called
P4_PlainClick(k) ==
    /\ PlainTarget(k)
    /\ last' = Op("plainClick", null)
    /\ UNCHANGED <<text, debouncedText, language, matches, selectedIdx,
                   loading, err, timers, inflight, latest, segs, status, probe>>

\* applyReplacement falling back to the last match for an index past the end
P4_applyReplacement_clamped(matchIdx, replacement) ==
    IF matches = <<>>
    THEN /\ last' = Op("applyStale", null)
         /\ UNCHANGED <<text, debouncedText, language, matches, selectedIdx,
                        loading, err, timers, inflight, latest, segs, status, probe>>
    ELSE LET m     == matches[Min(matchIdx, Len(matches) - 1) + 1]
             next  == replaceRange(text, m.offset, m.offset + m.length, replacement)
         IN  /\ Len(next) <= MaxLen
             /\ text' = next
             /\ selectedIdx' = null
             /\ timers' = IF next # text THEN P4_Rearm(next) ELSE timers
             /\ last' = Op(IF InRange(matches, matchIdx) THEN "apply"
                           ELSE "applyStale", null)
             /\ UNCHANGED <<debouncedText, language, matches, loading, err,
                            inflight, latest, segs, status, probe>>

\* applyReplacement(matchIdx, replacement)
P4_applyReplacement(matchIdx, replacement) ==
    IF ~InRange(matches, matchIdx)
    THEN /\ last' = Op("applyStale", null)
         /\ UNCHANGED <<text, debouncedText, language, matches, selectedIdx,
                        loading, err, timers, inflight, latest, segs, status, probe>>
    ELSE LET m     == matches[matchIdx + 1]
             start == m.offset
             end   == m.offset + m.length
             next  == replaceRange(text, start, end, replacement)
         IN  /\ Len(next) <= MaxLen
             /\ text' = next
             /\ selectedIdx' = null
             /\ timers' = IF next # text THEN P4_Rearm(next) ELSE timers
             /\ last' = Op("apply", null)
             /\ UNCHANGED <<debouncedText, language, matches, loading, err,
                            inflight, latest, segs, status, probe>>

P4_Apply == \E i \in 0 .. MaxMatches, r \in Repls : P4_applyReplacement(i, r)

\* ignoreSuggestion(matchIdx), from the list
P4_Ignore(i) ==
    /\ ~loading
    /\ InRange(matches, i)
    /\ matches' = RemoveAt(matches, i)
    /\ selectedIdx' = null
    /\ last' = Op("ignore", null)
    /\ UNCHANGED <<text, debouncedText, language, loading, err, timers,
                   inflight, latest, segs, status, probe>>

NextP4 ==
    \/ \E t \in P4Texts : P4_Edit(t)
    \/ \E l \in Langs : P4_SetLanguage(l)
    \/ P4_TimerFire
    \/ \E i \in 1 .. MaxInFlight : P4_Resolve(i)
    \/ \E i \in 1 .. MaxInFlight : P4_Reject(i)
    \/ \E i \in 0 .. (MaxMatches - 1) : P4_SelectList(i)
    \/ \E i \in 0 .. (MaxMatches - 1) : P4_WordClick(i)
    \/ \E k \in 1 .. MaxSegs : P4_PlainClick(k)
    \/ P4_Apply
    \/ \E i \in 0 .. (MaxMatches - 1) : P4_Ignore(i)

SpecP4 == InitP4 /\ [][NextP4]_vars

\* the armed timeout fires and the collaborator answers every request
LiveP4 ==
    /\ SpecP4
    /\ WF_vars(P4_TimerFire)
    /\ WF_vars(\E i \in 1 .. MaxInFlight : P4_Resolve(i))

-----------------------------------------------------------------------------
(* SpecLT: src/languagetool-master/src/App.tsx *)

\* applyFix keeping the matched characters after the replacement
applyFix_fromOffset(t, match, replacement) ==
    Slice(t, 0, match.offset) \o replacement \o SliceFrom(t, match.offset)

applyFix(t, match, replacement) ==
    LET before == Slice(t, 0, match.offset)
        after  == SliceFrom(t, match.offset + match.length)
    IN  before \o replacement \o after

\* useDebounced without the clearTimeout of its cleanup: the timers stack
useDebounced_stacking(value) == timers \cup {value}

\* useDebounced's effect on a new value: the cleanup clears the timer of the
\* previous run, the body arms one for the new value
useDebounced(value) == {value}

\* const selected = matches[selectedIdx]: the selected match, if there is one
Selection == IF InRange(matches, selectedIdx) THEN selectedIdx ELSE null

\* the check effect without its early return for a short text
LT_CheckEffect_always(v) ==
    LET aborted == latest.status = "pending"
        kept    == IF aborted THEN SubSeq(inflight, 1, Len(inflight) - 1)
                   ELSE inflight
    IN  /\ inflight' = Append(kept, Request(v))
        /\ latest' = Issued(v)
        /\ loading' = ~aborted
        /\ err' = "none"
        /\ UNCHANGED matches

\* the check effect for the debounced text v: first the cleanup of the
\* previous run (ac.abort(), which rejects the request still in flight: its
\* catch returns on AbortError, its finally clears loading once the effect
\* is through), then the body
LT_CheckEffect(v) ==
    LET aborted == latest.status = "pending"
        kept    == IF aborted THEN SubSeq(inflight, 1, Len(inflight) - 1)
                   ELSE inflight
    IN  IF Len(Trim(v)) < 3
        THEN /\ matches' = <<>>
             /\ err' = "none"
             /\ loading' = IF aborted THEN FALSE ELSE loading
             /\ inflight' = kept
             /\ latest' = IF aborted THEN [latest EXCEPT !.status = "aborted"]
                          ELSE latest
        ELSE /\ inflight' = Append(kept, Request(v))
             /\ latest' = Issued(v)
             /\ loading' = ~aborted
             /\ err' = "none"
             /\ UNCHANGED matches

\* the state once the component is mounted and its effects have run
InitLT ==
    /\ text = InitText
    /\ debouncedText = InitText
    /\ language = "en-US"
    /\ matches = <<>>
    /\ selectedIdx = 0
    /\ loading = TRUE
    /\ err = "none"
    /\ timers = {InitText}
    /\ inflight = <<Request(InitText)>>
    /\ latest = Issued(InitText)
    /\ segs = NoSegs
    /\ status = "online"
    /\ probe = "none"
    /\ last = Op("init", null)

\* textarea onChange -> setText
LT_Edit(t) ==
    /\ t # text
    /\ text' = t
    /\ timers' = useDebounced(t)
    /\ last' = Op("edit", IF last.op = "edit" THEN 2 ELSE 1)
    /\ UNCHANGED <<debouncedText, language, matches, selectedIdx, loading,
                   err, inflight, latest, segs, status, probe>>

\* the setTimeout callback of useDebounced: setDebounced(value)
LT_TimerFire ==
    \E v \in timers :
        /\ timers' = timers \ {v}
        /\ debouncedText' = v
        /\ IF v = debouncedText
           THEN UNCHANGED <<matches, err, loading, inflight, latest>>
           ELSE LT_CheckEffect(v)
        /\ last' = Op("fire", IF last.op = "edit" THEN last.arg ELSE 0)
        /\ UNCHANGED <<text, language, selectedIdx, segs, status, probe>>

\* the language select: the check effect runs again for the same text
LT_SetLanguage(l) ==
    /\ l # language
    /\ language' = l
    /\ LT_CheckEffect(debouncedText)
    /\ last' = Op("language", null)
    /\ UNCHANGED <<text, debouncedText, selectedIdx, timers, segs, status, probe>>

\* .then without setSelectedIdx(0)
LT_Resolve_keepSelection(i) ==
    /\ i \in DOMAIN inflight
    /\ matches' = Resp(inflight[i])
    /\ loading' = FALSE
    /\ inflight' = RemoveAt(inflight, i - 1)
    /\ latest' = Settled(i, "ok")
    /\ last' = Op("resolve", selectedIdx)
    /\ UNCHANGED <<text, debouncedText, language, selectedIdx, err, timers,
                   segs, status, probe>>

\* ltCheck resolved: .then and .finally
LT_Resolve(i) ==
    /\ i \in DOMAIN inflight
    /\ matches' = Resp(inflight[i])
    /\ selectedIdx' = 0
    /\ loading' = FALSE
    /\ inflight' = RemoveAt(inflight, i - 1)
    /\ latest' = Settled(i, "ok")
    /\ last' = Op("resolve", selectedIdx)
    /\ UNCHANGED <<text, debouncedText, language, err, timers, segs, status, probe>>

\* ltCheck rejected by the network or by a non-ok status: .catch and .finally
LT_Reject(i) ==
    /\ i \in DOMAIN inflight
    /\ err' = "error"
    /\ matches' = <<>>
    /\ loading' = FALSE
    /\ inflight' = RemoveAt(inflight, i - 1)
    /\ latest' = Settled(i, "failed")
    /\ last' = Op("reject", null)
    /\ UNCHANGED <<text, debouncedText, language, selectedIdx, timers, segs, status, probe>>

\* click on a suggestion of the list
LT_Select(i) ==
    /\ InRange(matches, i)
    /\ selectedIdx' = i
    /\ last' = Op("select", null)
    /\ UNCHANGED <<text, debouncedText, language, matches, loading, err,
                   timers, inflight, latest, segs, status, probe>>

\* onApply(repl)
LT_onApply(repl) ==
    IF ~InRange(matches, selectedIdx)
    THEN /\ last' = Op("applyStale", null)
         /\ UNCHANGED <<text, debouncedText, language, matches, selectedIdx,
                        loading, err, timers, inflight, latest, segs, status, probe>>
    ELSE LET next == applyFix(text, matches[selectedIdx + 1], repl)
         IN  /\ Len(next) <= MaxLen
             /\ text' = next
             /\ timers' = IF next # text THEN useDebounced(next) ELSE timers
             /\ last' = Op("apply", null)
             /\ UNCHANGED <<debouncedText, language, matches, selectedIdx,
                            loading, err, inflight, latest, segs, status, probe>>

NextLT ==
    \/ \E t \in Texts : LT_Edit(t)
    \/ LT_TimerFire
    \/ \E l \in Langs : LT_SetLanguage(l)
    \/ \E i \in 1 .. MaxInFlight : LT_Resolve(i)
    \/ \E i \in 1 .. MaxInFlight : LT_Reject(i)
    \/ \E i \in 0 .. (MaxMatches - 1) : LT_Select(i)
    \/ \E r \in Repls : LT_onApply(r)

SpecLT == InitLT /\ [][NextLT]_vars

-----------------------------------------------------------------------------
(* SpecTW: the second application of src/tailwind.config.js *)

\* the check effect for the debounced text v: the cleanup of the previous run
\* aborts the request still in flight, then the body runs, then the aborted
\* request rejects: its catch sets the error whatever the rejection is, its
\* finally clears loading
TW_CheckEffect(v) ==
    LET aborted == latest.status = "pending"
        kept    == IF aborted THEN SubSeq(inflight, 1, Len(inflight) - 1)
                   ELSE inflight
    IN  IF Len(Trim(v)) < 3
        THEN /\ matches' = <<>>
             /\ selectedIdx' = null
             /\ err' = IF aborted THEN "error" ELSE err
             /\ loading' = IF aborted THEN FALSE ELSE loading
             /\ inflight' = kept
             /\ latest' = IF aborted THEN [latest EXCEPT !.status = "aborted"]
                          ELSE latest
        ELSE /\ inflight' = Append(kept, Request(v))
             /\ latest' = Issued(v)
             /\ loading' = ~aborted
             /\ err' = IF aborted THEN "error" ELSE "none"
             /\ UNCHANGED <<matches, selectedIdx>>

\* the state once the component is mounted and its effects have run
InitTW ==
    /\ text = InitText
    /\ debouncedText = InitText
    /\ language = "en-US"
    /\ matches = <<>>
    /\ selectedIdx = null
    /\ loading = TRUE
    /\ err = "none"
    /\ timers = {InitText}
    /\ inflight = <<Request(InitText)>>
    /\ latest = Issued(InitText)
    /\ segs = NoSegs
    /\ status = "online"
    /\ probe = "none"
    /\ last = Op("init", null)

\* Editor onChange -> setText
TW_Edit(t) ==
    /\ t # text
    /\ text' = t
    /\ timers' = useDebounced(t)
    /\ last' = Op("edit", null)
    /\ UNCHANGED <<debouncedText, language, matches, selectedIdx, loading,
                   err, inflight, latest, segs, status, probe>>

\* the setTimeout callback of useDebounced: setDebounced(value)
TW_TimerFire ==
    \E v \in timers :
        /\ timers' = timers \ {v}
        /\ debouncedText' = v
        /\ IF v = debouncedText
           THEN UNCHANGED <<matches, selectedIdx, err, loading, inflight,
                            latest>>
           ELSE TW_CheckEffect(v)
        /\ last' = Op("fire", null)
        /\ UNCHANGED <<text, language, segs, status, probe>>

\* the language select: the check effect runs again for the same text
TW_SetLanguage(l) ==
    /\ l # language
    /\ language' = l
    /\ TW_CheckEffect(debouncedText)
    /\ last' = Op("language", null)
    /\ UNCHANGED <<text, debouncedText, timers, segs, status, probe>>

\* ltCheck resolved: .then and .finally
TW_Resolve(i) ==
    /\ i \in DOMAIN inflight
    /\ matches' = Resp(inflight[i])
    /\ selectedIdx' = IF Len(Resp(inflight[i])) > 0 THEN 0 ELSE null
    /\ loading' = FALSE
    /\ inflight' = RemoveAt(inflight, i - 1)
    /\ latest' = Settled(i, "ok")
    /\ last' = Op("resolve", null)
    /\ UNCHANGED <<text, debouncedText, language, err, timers, segs, status,
                   probe>>

\* ltCheck rejected by the network or by a non-ok status: .catch and .finally
TW_Reject(i) ==
    /\ i \in DOMAIN inflight
    /\ err' = "error"
    /\ loading' = FALSE
    /\ inflight' = RemoveAt(inflight, i - 1)
    /\ latest' = Settled(i, "failed")
    /\ last' = Op("reject", null)
    /\ UNCHANGED <<text, debouncedText, language, matches, selectedIdx,
                   timers, segs, status, probe>>

\* onPickSuggestion(i) from the list, onWordClick(idx) from a highlighted span
TW_Select(i) ==
    /\ InRange(matches, i)
    /\ selectedIdx' = i
    /\ last' = Op("select", i)
    /\ UNCHANGED <<text, debouncedText, language, matches, loading, err,
                   timers, inflight, latest, segs, status, probe>>

\* the "Ignore this suggestion" button of the selected suggestion
TW_Ignore ==
    /\ selectedIdx >= 0 /\ InRange(matches, selectedIdx)
    /\ selectedIdx' = null
    /\ last' = Op("ignore", null)
    /\ UNCHANGED <<text, debouncedText, language, matches, loading, err,
                   timers, inflight, latest, segs, status, probe>>

\* applyFix(replacement)
TW_applyFix(replacement) ==
    IF ~InRange(matches, selectedIdx)
    THEN /\ last' = Op("applyStale", null)
         /\ UNCHANGED <<text, debouncedText, language, matches, selectedIdx,
                        loading, err, timers, inflight, latest, segs, status,
                        probe>>
    ELSE LET m      == matches[selectedIdx + 1]
             before == Slice(text, 0, m.offset)
             after  == SliceFrom(text, m.offset + m.length)
             next   == before \o replacement \o after
         IN  /\ Len(next) <= MaxLen
             /\ text' = next
             /\ timers' = IF next # text THEN useDebounced(next) ELSE timers
             /\ last' = Op("apply", null)
             /\ UNCHANGED <<debouncedText, language, matches, selectedIdx,
                            loading, err, inflight, latest, segs, status,
                            probe>>

NextTW ==
    \/ \E t \in Texts : TW_Edit(t)
    \/ TW_TimerFire
    \/ \E l \in Langs : TW_SetLanguage(l)
    \/ \E i \in 1 .. MaxInFlight : TW_Resolve(i)
    \/ \E i \in 1 .. MaxInFlight : TW_Reject(i)
    \/ \E i \in 0 .. (MaxMatches - 1) : TW_Select(i)
    \/ TW_Ignore
    \/ \E r \in Repls : TW_applyFix(r)

SpecTW == InitTW /\ [][NextTW]_vars

-----------------------------------------------------------------------------
(* SpecAPP: src/App.tsx *)

\* /  {2,}/.test(t)
HasDoubleSpace(t) == \E k \in 1 .. (Len(t) - 1) : t[k] = " " /\ t[k + 1] = " "

\* s.replace(/ {2,}/g, ' ')
RECURSIVE CollapseSpaces(_)
CollapseSpaces(t) ==
    IF t = <<>> THEN <<>>
    ELSE IF Len(t) >= 2 /\ t[1] = " " /\ t[2] = " "
         THEN CollapseSpaces(Tail(t))
         ELSE <<Head(t)>> \o CollapseSpaces(Tail(t))

\* the local heuristics; of its six rules only "double-space" can match a
\* text of letters a and spaces
buildSuggestions(t) ==
    IF Trim(t) = <<>> THEN <<>>
    ELSE IF HasDoubleSpace(t) THEN <<[id |-> "double-space"]>> ELSE <<>>

\* the apply closure mapLanguageToolMatchesToSuggestions builds for a match
applyClosure(current, m, bestReplacement) ==
    Slice(current, 0, m.offset) \o bestReplacement
        \o SliceFrom(current, m.offset + m.length)

\* one suggestion per match, earliest first; `before` is the matched range
\* of the text the effect captured
mapLanguageToolMatchesToSuggestions(ms, fullText) ==
    LET sorted == SortByOffset(ms)
    IN  [k \in DOMAIN sorted |->
            [offset |-> sorted[k].offset, length |-> sorted[k].length,
             before |-> Slice(fullText, sorted[k].offset,
                              sorted[k].offset + sorted[k].length)]]

\* what the user may type: nothing, a blank, a double space, plain words
APPTexts == { <<>>, <<" ">>, <<"a", " ", " ", "a">>, <<" ", "a", "a">>, InitText }

\* the request the timeout callback sends for the captured text: the trimmed
\* text goes on the wire, the closure keeps the text itself
APP_Request(t) == [text |-> Trim(t), full |-> t]

\* the request issued last, with the text its closure captured
APP_Issued(t) == [text |-> Trim(t), status |-> "pending", full |-> t]

\* the suggestion effect running although the engine is not online
APP_Effect_ungated(t, st) ==
    IF Trim(t) = <<>>
    THEN matches' = <<>> /\ timers' = {}
    ELSE timers' = {t} /\ UNCHANGED matches

\* the suggestion effect for text t and status st: the cleanup clears the
\* pending timeout, then the body runs
APP_Effect(t, st) ==
    IF st # "online"
    THEN matches' = buildSuggestions(t) /\ timers' = {}
    ELSE IF Trim(t) = <<>>
         THEN matches' = <<>> /\ timers' = {}
         ELSE timers' = {t} /\ UNCHANGED matches

\* the state once the component is mounted and its effects have run: the
\* healthcheck is on its way, the suggestions are those of the empty text
InitAPP ==
    /\ text = <<>>
    /\ debouncedText = <<>>
    /\ language = "auto"
    /\ matches = <<>>
    /\ selectedIdx = null
    /\ loading = FALSE
    /\ err = "none"
    /\ timers = {}
    /\ inflight = <<>>
    /\ latest = NoRequest
    /\ segs = NoSegs
    /\ status = "offline"
    /\ probe = "pending"
    /\ last = Op("init", null)

\* what the collaborator does with the probe of the health function: it
\* answers with a success status, with another status, or the fetch throws
\* (also when LT_BASE_URL is not set)
Collab == {"success", "failure", "threw"}

\* what becomes of GET /api/lt/health: a JSON body comes back, a body that is
\* not JSON comes back, or the fetch throws
Transports == {"answered", "notJson", "threw"}

ProbeOutcomes == [transport : Transports, collab : Collab]

\* an outcome as the number `last` keeps of it
OutcomeCode(o) ==
    (CASE o.transport = "answered" -> 0
       [] o.transport = "notJson" -> 3
       [] o.transport = "threw" -> 6)
    + (CASE o.collab = "success" -> 0
         [] o.collab = "failure" -> 1
         [] o.collab = "threw" -> 2)

\* the health function answering ok whatever the collaborator did
onRequestGet_alwaysOk(collab) == [ok |-> TRUE]

\* the health function: the body of its response
onRequestGet(collab) ==
    IF collab = "threw" THEN [ok |-> FALSE]
    ELSE IF collab # "success" THEN [ok |-> FALSE]
    ELSE [ok |-> TRUE]

\* res.json().catch(() => null)
NoJson == [none |-> TRUE]

\* the status the healthcheck effect sets for outcome o
probeStatus(o) ==
    IF o.transport = "threw" THEN "offline"
    ELSE LET json == IF o.transport = "notJson" THEN NoJson
                     ELSE onRequestGet(o.collab)
         IN  IF "ok" \in DOMAIN json /\ json.ok THEN "online" ELSE "offline"

\* the healthcheck result with a suggestion effect that does not depend on
\* status
APP_ProbeResult_noRerun(o) ==
    /\ probe = "pending"
    /\ probe' = "done"
    /\ status' = probeStatus(o)
    /\ last' = Op("probe", OutcomeCode(o))
    /\ UNCHANGED <<text, debouncedText, language, matches, selectedIdx,
                   loading, err, timers, inflight, latest, segs>>

\* the healthcheck settled with outcome o
APP_ProbeResult(o) ==
    /\ probe = "pending"
    /\ probe' = "done"
    /\ status' = probeStatus(o)
    /\ IF status' # status
       THEN APP_Effect(text, status')
       ELSE UNCHANGED <<matches, timers>>
    /\ last' = Op("probe", OutcomeCode(o))
    /\ UNCHANGED <<text, debouncedText, language, selectedIdx, loading, err,
                   inflight, latest, segs>>

\* textarea onChange -> setText
APP_Edit(t) ==
    /\ t # text
    /\ text' = t
    /\ APP_Effect(t, status)
    /\ last' = Op("edit", null)
    /\ UNCHANGED <<debouncedText, language, selectedIdx, loading, err,
                   inflight, latest, segs, status, probe>>

\* the timeout callback, up to the fetch
APP_TimerFire ==
    \E t \in timers :
        /\ Len(inflight) < MaxInFlight
        /\ timers' = {}
        /\ loading' = TRUE
        /\ inflight' = Append(inflight, APP_Request(t))
        /\ latest' = APP_Issued(t)
        /\ last' = Op("fire", null)
        /\ UNCHANGED <<text, debouncedText, language, matches, selectedIdx,
                       err, segs, status, probe>>

\* the timeout callback after the fetch: payload.ok with data.matches
APP_Resolve(i) ==
    /\ i \in DOMAIN inflight
    /\ matches' = mapLanguageToolMatchesToSuggestions(Resp(inflight[i]),
                                                      inflight[i].full)
    /\ loading' = FALSE
    /\ inflight' = RemoveAt(inflight, i - 1)
    /\ latest' = Settled(i, "ok")
    /\ last' = Op("resolve", null)
    /\ UNCHANGED <<text, debouncedText, language, selectedIdx, err, timers,
                   segs, status, probe>>

\* the timeout callback after the fetch: the fetch threw, or the payload is
\* not ok or carries no matches
APP_Reject(i) ==
    /\ i \in DOMAIN inflight
    /\ matches' = buildSuggestions(inflight[i].full)
    /\ loading' = FALSE
    /\ inflight' = RemoveAt(inflight, i - 1)
    /\ latest' = Settled(i, "failed")
    /\ last' = Op("reject", null)
    /\ UNCHANGED <<text, debouncedText, language, selectedIdx, err, timers,
                   segs, status, probe>>

\* s.apply(text) for suggestion s
SuggestionApply(s, current, r) ==
    IF "id" \in DOMAIN s THEN CollapseSpaces(current)
    ELSE applyClosure(current, s, r)

\* applySuggestion(s) for the k-th suggestion card
APP_applySuggestion(k, r) ==
    /\ k \in DOMAIN matches
    /\ LET next == SuggestionApply(matches[k], text, r)
       IN  /\ Len(next) <= MaxLen
           /\ text' = next
           /\ IF next # text THEN APP_Effect(next, status)
              ELSE UNCHANGED <<matches, timers>>
    /\ last' = Op("apply", null)
    /\ UNCHANGED <<debouncedText, language, selectedIdx, loading, err,
                   inflight, latest, segs, status, probe>>

NextAPP ==
    \/ \E o \in ProbeOutcomes : APP_ProbeResult(o)
    \/ \E t \in APPTexts : APP_Edit(t)
    \/ APP_TimerFire
    \/ \E i \in 1 .. MaxInFlight : APP_Resolve(i)
    \/ \E i \in 1 .. MaxInFlight : APP_Reject(i)
    \/ \E k \in 1 .. MaxMatches, r \in Repls : APP_applySuggestion(k, r)

SpecAPP == InitAPP /\ [][NextAPP]_vars

\* the browser runs a timeout that is due, every fetch settles
LiveAPP ==
    /\ SpecAPP
    /\ WF_vars(APP_TimerFire)
    /\ WF_vars(\E i \in 1 .. MaxInFlight : APP_Reject(i) \/ APP_Resolve(i))
    /\ WF_vars(\E o \in ProbeOutcomes : APP_ProbeResult(o))

-----------------------------------------------------------------------------
(* Claims about the request scheduler *)

\* C1: stale-response discard: once the requests issued have all settled and
\* the most recently issued one was answered, the match set is the answer to
\* that request, in whichever order the responses arrived; no response to an
\* earlier request updates the match set.
C1_StaleDiscard ==
    (/\ last.op \in {"resolve", "reject"}
     /\ inflight = <<>>
     /\ latest.status = "ok")
        => matches = Analyse(latest.text)

\* C6: at most one analysis request is outstanding at any time.
C6_AtMostOneInFlight == Len(inflight) <= 1

\* a step that issues no analysis request
NoIssue ==
    /\ Len(inflight') <= Len(inflight)
    /\ \/ latest' = latest
       \/ latest' = [latest EXCEPT !.status = "aborted"]

\* a step that issues exactly one analysis request, for the current buffer,
\* and leaves no other request outstanding
IssuesForBuffer ==
    /\ latest' = Issued(text)
    /\ inflight' = <<Request(text)>>

-----------------------------------------------------------------------------
(* Claims about the selection and the rendered match set *)

C8_NoStaleMatches == matches = <<>> \/ matches = Analyse(text)

-----------------------------------------------------------------------------
(* Claims about the replacement applicator *)

\* the matches behind the replaced range, shifted by the change of length
ShiftedBy(ms, i, r, after) ==
    \A j \in DOMAIN ms :
        (j # i + 1 /\ ms[j].offset >= ms[i + 1].offset + ms[i + 1].length)
            => \E k \in DOMAIN after :
                  after[k] = [offset |-> ms[j].offset + Len(r) - ms[i + 1].length,
                              length |-> ms[j].length]

\* C4: offset shift on apply: after apply of match m with replacement r,
\* every remaining match whose offset >= m.offset + m.length is in the match
\* set with its offset shifted by len(r) - m.length.
C4_OffsetShift ==
    [][\A i \in 0 .. (MaxMatches - 1), r \in Repls :
          (InRange(matches, i) /\ P4_applyReplacement(i, r))
              => ShiftedBy(matches, i, r, matches')]_vars

C10_AppliedRemoved ==
    [][\A i \in 0 .. (MaxMatches - 1), r \in Repls :
          (InRange(matches, i) /\ P4_applyReplacement(i, r) /\ text' # text)
              => matches[i + 1] \notin Range(matches')]_vars

\* C11: after every apply that rewrites the buffer, the selection is none.
C11_SelectionCleared ==
    [][(last'.op = "apply" /\ text' # text) => Selection' = null]_vars

C14_PlainClick ==
    [][last'.op = "plainClick"
          => /\ selectedIdx' = selectedIdx
             /\ Selection' = Selection]_vars

\* C14 witness: plain text was clicked while the second match was selected.
C14_Witness ==
    /\ last.op = "plainClick"
    /\ Selection = 1

-----------------------------------------------------------------------------
(* Claims about failures, cancellation and the healthcheck *)

\* C16: when the current analysis request fails, the match set is cleared or
\* replaced by the local fallback set, never left at the previous response,
\* and a failure state is exposed.
C16_FailureHandling ==
    [][(/\ last'.op = "reject"
        /\ latest.status = "pending"
        /\ latest'.status = "failed")
          => /\ matches' = <<>> \/ matches' = buildSuggestions(text')
             /\ err' = "error"]_vars

\* a step whose check effect cancels the request still in flight
Cancels ==
    /\ latest.status = "pending"
    /\ \/ last'.op = "language"
       \/ last'.op = "fire" /\ debouncedText' # debouncedText

\* C17: a cancelled request is not an error: cancelling a superseded request
\* never sets the error state and never clears the match set (the match set
\* is cleared only by the short-circuit for a trivial text).
C17_CancelNotError ==
    [][Cancels => /\ err' # "error"
                  /\ matches' = matches \/ Len(Trim(debouncedText')) < 3]_vars

\* C18: offline gating: while the engine status is not online no analysis
\* request is pending or in flight, and the match set is the output of the
\* local heuristics on the current buffer.
C18_OfflineGating ==
    status # "online" =>
        /\ timers = {}
        /\ inflight = <<>>
        /\ matches = buildSuggestions(text)

\* C18 witness: the healthcheck failed and the local heuristics flag the
\* double space of the buffer.
C18_Witness ==
    /\ status = "offline"
    /\ probe = "done"
    /\ matches = <<[id |-> "double-space"]>>

\* the buffer has been evaluated the online way: an answer or a failure of
\* the service came in, or the buffer is blank and the match set empty
OnlineEvaluated ==
    \/ last.op \in {"resolve", "reject"}
    \/ Trim(text) = <<>> /\ matches = <<>>

\* C19: every transition of the health signal re-triggers the evaluation of
\* the current buffer under the new mode (online: the debounce is armed for
\* the buffer, or the match set emptied for a blank buffer; offline: the match
\* set is the local heuristics' output), and after the transition to online
\* the match set eventually comes from the online evaluation.
C19_Retrigger ==
    /\ [][status' # status =>
            IF status' = "online"
            THEN IF Trim(text') = <<>> THEN matches' = <<>> /\ timers' = {}
                 ELSE timers' = {text'}
            ELSE matches' = buildSuggestions(text') /\ timers' = {}]_vars
    /\ (last.op = "probe" /\ status = "online") ~> OnlineEvaluated

\* C19 witness: the healthcheck turned the status online over a non-blank
\* buffer, and the debounce is armed for that buffer.
C19_Witness ==
    /\ last.op = "probe"
    /\ status = "online"
    /\ Trim(text) # <<>>
    /\ timers = {text}

\* C20: probe() is invoked at session start and then periodically: after
\* each probe another probe eventually follows.
C20_ProbePeriodic == [](probe = "done" => <>(probe = "pending"))

\* C21: each settled debounce window causes exactly one network call, and a
\* settled window whose buffer is the buffer analysed last causes none.
C21_OneCallPerWindow ==
    [][last'.op = "fire" =>
          IF latest.status # "none" /\ latest.full = text
          THEN inflight' = inflight
          ELSE /\ Len(inflight') = Len(inflight) + 1
               /\ inflight'[Len(inflight')] = APP_Request(text)]_vars

C26_RangeChecked ==
    [][(/\ last'.op = "apply"
        /\ InRange(matches, selectedIdx)
        /\ matches[selectedIdx + 1].offset + matches[selectedIdx + 1].length
              > Len(text))
          => text' = text]_vars

\* the scheduler is at rest with the collaborator's answer for the buffer
Consistent ==
    /\ inflight = <<>>
    /\ ~loading
    /\ matches = Analyse(text)

\* C27: eventual consistency: if the user stops editing (no edit, language
\* change, apply or ignore any more) and every issued request receives a
\* successful response, then eventually no request is in flight, the loading
\* flag is off and the match set is the collaborator's response for the final
\* buffer, and it stays so.
C27_EventualConsistency ==
    (<>[][last'.op \notin {"edit", "language", "apply", "ignore", "reject"}]_vars)
        => <>[]Consistent

\* C28: loading indicator consistency: whenever the most recently issued
\* analysis request is still in flight the checking flag is true; the
\* completion of an older request never turns it off while the newer request
\* is outstanding.
C28_LoadingConsistent == latest.status = "pending" => loading

\* C29: the text sent to the collaborator is the buffer against which the
\* returned offsets are used: for every match published by a response, the
\* buffer's characters at [offset, offset + length), which the suggestion
\* shows and its apply replaces, are the characters the collaborator flagged
\* in the text it was sent, also when the buffer has leading whitespace.
C29_SentIsBuffer ==
    [][last'.op = "resolve" =>
          \E i \in DOMAIN inflight :
              /\ inflight' = RemoveAt(inflight, i - 1)
              /\ \A k \in DOMAIN matches' :
                    matches'[k].before
                        = Slice(inflight[i].text, matches'[k].offset,
                                matches'[k].offset + matches'[k].length)]_vars

\* C30: a match is applied at most once: of two onApply calls in succession
\* with the same selected match and replacement, no analysis response in
\* between, only the first changes the buffer.
C30_AppliedOnce ==
    [][(last.op = "apply" /\ last'.op = "apply") => text' = text]_vars

-----------------------------------------------------------------------------
(* SpecApply: the three apply functions on generated inputs *)

\* replacement strings: empty, shorter and longer than the matched range
ApplyRepls == { <<>>, <<"x">>, <<"x", "y">> }

InitApply ==
    /\ text \in AnnTexts
    /\ matches \in { <<m>> : m \in AnnMatches }
    /\ selectedIdx = 0
    /\ debouncedText = <<>>
    /\ language = "en-US"
    /\ loading = FALSE
    /\ err = "none"
    /\ timers = {}
    /\ inflight = <<>>
    /\ latest = NoRequest
    /\ segs = NoSegs
    /\ status = "online"
    /\ probe = "none"
    /\ last = Op("init", null)

Applied(fn, r, out) ==
    /\ segs.fn # fn
    /\ segs' = [fn |-> fn, out |-> out, built |-> segs.built]
    /\ last' = Op(fn, r)
    /\ UNCHANGED <<text, debouncedText, language, matches, selectedIdx,
                   loading, err, timers, inflight, latest, status, probe>>

\* languagetool-master: applyFix(text, selected, repl)
Apply_applyFix(r) == Applied("applyFix", r, applyFix(text, matches[1], r))

\* part_004: replaceRange(activeText, start, end, replacement)
Apply_replaceRange(r) ==
    LET m == matches[1]
    IN  Applied("replaceRange", r,
                replaceRange(text, m.offset, m.offset + m.length, r))

\* src/App.tsx: s.apply(text), defined when the match offers a replacement
Apply_applyClosure(r) ==
    /\ r # <<>>
    /\ Applied("applyClosure", r, applyClosure(text, matches[1], r))

NextApply ==
    \/ \E r \in ApplyRepls : Apply_applyFix(r)
    \/ \E r \in ApplyRepls : Apply_replaceRange(r)
    \/ \E r \in ApplyRepls : Apply_applyClosure(r)

SpecApply == InitApply /\ [][NextApply]_vars

\* out is buffer with the range of m replaced by r: the characters before the
\* range, then r, then the characters after the range, each in order
ReplacedIn(buffer, m, r, out) ==
    LET o == Min(m.offset, Len(buffer))
        e == Min(m.offset + m.length, Len(buffer))
    IN  /\ Len(out) = o + Len(r) + (Len(buffer) - e)
        /\ \A k \in 1 .. o : out[k] = buffer[k]
        /\ \A k \in 1 .. Len(r) : out[o + k] = r[k]
        /\ \A k \in 1 .. (Len(buffer) - e) : out[o + Len(r) + k] = buffer[e + k]

\* C12: apply(buffer, match, replacementText) is buffer[0:offset] followed by
\* replacementText followed by buffer[offset+length:]: the characters before
\* and after the match range are unchanged and in order, only the range is
\* replaced.
C12_ApplyFormula ==
    segs.fn \in {"applyFix", "replaceRange", "applyClosure"}
        => ReplacedIn(text, matches[1], last.arg, segs.out)

\* C12 witness: a match strictly inside the buffer was replaced by a longer
\* string by applyFix.
C12_Witness ==
    /\ segs.fn = "applyFix"
    /\ matches[1].offset > 0
    /\ matches[1].offset + matches[1].length < Len(text)
    /\ Len(last.arg) > matches[1].length
    /\ segs.out # text

-----------------------------------------------------------------------------
(* SpecBatch: what becomes of a response body *)

\* the entries a batch may hold: matches with offset and length, and entries
\* lacking one of them
BatchEntries ==
    [offset : 0 .. 1, length : 1 .. 2] \cup {[length |-> 1], [offset |-> 0]}

\* response bodies: with a matches array, or without one
Payloads ==
    {[matches |-> b] : b \in SeqsUpTo(BatchEntries, MaxBatch)}
        \cup {[software |-> "LanguageTool"]}

\* languagetool-master ltCheck: (json.matches || []) as LTMatch[]
ltCheck(json) == IF "matches" \in DOMAIN json THEN json.matches ELSE <<>>

\* part_004 checkGrammar: Array.isArray(data.matches) ? data.matches : []
checkGrammarMatches(data) ==
    IF "matches" \in DOMAIN data THEN data.matches ELSE <<>>

InitBatch ==
    /\ text = InitText
    /\ debouncedText = InitText
    /\ language = "en-US"
    /\ matches = <<>>
    /\ selectedIdx = null
    /\ loading = TRUE
    /\ err = "none"
    /\ timers = {}
    /\ inflight \in {<<[text |-> InitText, json |-> j]>> : j \in Payloads}
    /\ latest = Issued(InitText)
    /\ segs = NoSegs
    /\ status = "online"
    /\ probe = "none"
    /\ last = Op("init", null)

\* languagetool-master: ltCheck(...).then((m) => setMatches(m))
Batch_ltCheck ==
    /\ last.op # "ltCheck"
    /\ matches' = ltCheck(inflight[1].json)
    /\ selectedIdx' = 0
    /\ loading' = FALSE
    /\ last' = Op("ltCheck", null)
    /\ UNCHANGED <<text, debouncedText, language, err, timers, inflight,
                   latest, segs, status, probe>>

\* part_004: setMatches(...) of checkGrammar
Batch_checkGrammar ==
    /\ last.op # "checkGrammar"
    /\ matches' = checkGrammarMatches(inflight[1].json)
    /\ err' = "Found"
    /\ loading' = FALSE
    /\ last' = Op("checkGrammar", null)
    /\ UNCHANGED <<text, debouncedText, language, selectedIdx, timers,
                   inflight, latest, segs, status, probe>>

NextBatch == Batch_ltCheck \/ Batch_checkGrammar

SpecBatch == InitBatch /\ [][NextBatch]_vars

\* an entry that has both offset and length
WellFormed(e) == {"offset", "length"} \subseteq DOMAIN e

\* C23: a match lacking offset or length is discarded individually and the
\* well-formed matches of the same batch are published: the match set is the
\* batch without its malformed entries.
C23_MalformedDiscarded ==
    last.op \in {"ltCheck", "checkGrammar"} =>
        matches = SelectSeq(ltCheck(inflight[1].json), WellFormed)

-----------------------------------------------------------------------------
(* SpecSeverity: the severity of generated matches *)

\* issue types the collaborator reports (lowercase ITS names), and the empty
\* string
IssueTypes ==
    {"misspelling", "grammar", "style", "typographical", "uncategorized",
     "whitespace", ""}

\* a match's optional rule: absent, without issueType, or with one
SeverityMatches ==
    [offset : 0 .. 1, length : {1}]
        \cup [offset : 0 .. 1, length : {1}, rule : {[id |-> "R"]}]
        \cup [offset : 0 .. 1, length : {1},
              rule : [id : {"R"}, issueType : IssueTypes]]

\* String.prototype.toLowerCase on issue-type names
toLowerCase(s) ==
    CASE s = "Misspelling" -> "misspelling"
      [] s = "MISSPELLING" -> "misspelling"
      [] s = "Grammar" -> "grammar"
      [] s = "GRAMMAR" -> "grammar"
      [] s = "Style" -> "style"
      [] s = "STYLE" -> "style"
      [] OTHER -> s

\* m.rule?.issueType || ''
issueTypeOf(m) ==
    IF "rule" \in DOMAIN m /\ "issueType" \in DOMAIN m.rule
    THEN m.rule.issueType
    ELSE ""

severity_styleInfo(m) ==
    LET issueType == toLowerCase(issueTypeOf(m))
    IN  IF issueType = "misspelling" \/ issueType = "grammar"
        THEN "critical"
        ELSE "info"

\* src/App.tsx: the severity of a suggestion
severity(m) ==
    LET issueType == toLowerCase(issueTypeOf(m))
    IN  IF issueType = "misspelling" \/ issueType = "grammar"
        THEN "critical"
        ELSE IF issueType = "style" THEN "warning" ELSE "info"

\* tailwind.config.js: getSeverity(match)
getSeverity(match) ==
    LET t == issueTypeOf(match)
    IN  IF t = "misspelling" \/ t = "grammar" THEN "error"
        ELSE IF t = "style" THEN "style" ELSE "info"

InitSeverity ==
    /\ text = InitText
    /\ debouncedText = InitText
    /\ language = "en-US"
    /\ matches \in SeqsUpTo(SeverityMatches, MaxBatch)
    /\ selectedIdx = 0
    /\ loading = FALSE
    /\ err = "none"
    /\ timers = {}
    /\ inflight = <<>>
    /\ latest = NoRequest
    /\ segs = NoSegs
    /\ status = "online"
    /\ probe = "none"
    /\ last = Op("init", null)

\* src/App.tsx: the severities of mapLanguageToolMatchesToSuggestions
Severity_map ==
    LET sorted == SortByOffset(matches)
    IN  Annotated("severity", [k \in DOMAIN sorted |-> severity(sorted[k])])

\* tailwind.config.js: matches.map((m, idx) => getSeverity(m))
Severity_getSeverity ==
    Annotated("getSeverity", [k \in DOMAIN matches |-> getSeverity(matches[k])])

NextSeverity == Severity_map \/ Severity_getSeverity

SpecSeverity == InitSeverity /\ [][NextSeverity]_vars

\* the severity the classification assigns to a match
Classified(m) ==
    IF "rule" \in DOMAIN m /\ "issueType" \in DOMAIN m.rule
    THEN CASE m.rule.issueType \in {"misspelling", "grammar"} -> "critical"
           [] m.rule.issueType = "style" -> "warning"
           [] OTHER -> "info"
    ELSE "info"

====
